---- MODULE Spec2Model ----
(***************************************************************************)
(* Model of src/validation/mhd_simulation.py: the MHD stability script of  *)
(* the GSM fusion reactor design.  The script is one top-to-bottom pass    *)
(* over module-level statements: it prints the equilibrium, scans ten      *)
(* radii for ballooning modes, evaluates the Troyon limit, scans five      *)
(* rational surfaces for tearing modes, evaluates NTM, sawtooth, RWM and   *)
(* ELM, and prints a summary.                                              *)
(*                                                                         *)
(* Floating-point quantities are fixed-point integers:                     *)
(*   q0, q95, kappa, delta        tenths                                   *)
(*   beta, alpha, alpha_crit,                                              *)
(*   beta_N, troyon_limit         units of 1e-4                            *)
(*   a, B0, H_phi, phi, r_s, dp*  units of 1e-3                            *)
(*   I_p                          tenths of a mega-ampere (I_p/1e6)        *)
(*   r_norm                       units of 1/180  (0.1 = 18, 0.95 = 171)   *)
(*   q_local                      units of 1/324000 (exact)                *)
(*   beta_no_wall                 units of 5e-6   (exact)                  *)
(***************************************************************************)
EXTENDS Integers, Sequences, FiniteSets, TLC

VARIABLES q0, q95, beta, kappa, delta, a, I_p,
          pc, out, run, prev,
          scan_i, samples, ballooning_stable,
          beta_N, kink_stable,
          surf_j, surfaces, skipped, tearing_stable,
          ntm_stable, sawtooth_stable, beta_no_wall, rwm_stable, elm_stable,
          modes, all_stable

params == <<q0, q95, beta, kappa, delta, a, I_p>>
locals == <<scan_i, samples, ballooning_stable, beta_N, kink_stable,
            surf_j, surfaces, skipped, tearing_stable,
            ntm_stable, sawtooth_stable, beta_no_wall, rwm_stable, elm_stable,
            modes, all_stable>>
vars == <<params, pc, out, run, prev, locals>>

\* ------------------------------------------------------------------------
\* Bounds of the model and the input domains
\* ------------------------------------------------------------------------
MaxRuns == 2
MaxKappa == 40

Q0Values    == {5, 9, 10, 12, 15, 20, 30}
Q95Values   == {9, 11, 25, 30, 40}
BetaValues  == {163, 250, 3000}
KappaValues == {17, 34}
DeltaValues == {4}
AValues     == {-1000, 0, 2618}
IpValues    == {3, 253}

\* ------------------------------------------------------------------------
\* Program constants
\* ------------------------------------------------------------------------
phi           == 1618
B0            == 24598
H_phi         == 77834
troyon_limit  == 28000
ntm_threshold == 200
N_samples     == 10
elm_energy_fraction == 51
P_disrupt     == 183

rational_surfaces == << <<2, 1>>, <<3, 2>>, <<3, 1>>, <<4, 3>>, <<5, 4>> >>

\* ------------------------------------------------------------------------
\* Arithmetic helpers
\* ------------------------------------------------------------------------
\* Floor of x / y for y # 0 of either sign.
FDiv(x, y) == IF y > 0 THEN x \div y ELSE (0 - x) \div (0 - y)

\* Floor of the square root of x, for 0 <= x <= 10^6.
ISqrt(x) == CHOOSE s \in 0..1000 : s * s <= x /\ (s + 1) * (s + 1) > x

\* ------------------------------------------------------------------------
\* 1. Ballooning
\* ------------------------------------------------------------------------
\* np.linspace(0.1, 1.0, 10)[i-1]: a scan that runs to the plasma edge.
r_norm_to_edge(i) == 18 + 18 * (i - 1)

\* np.linspace(0.1, 0.95, 10)[i-1] in units of 1/180.
r_norm_values(i) == 18 + 17 * (i - 1)

\* q_local = q0 + (q95 - q0) * r_norm**2, in units of 1/324000.
q_local(Q0, Q95, r) == Q0 * 32400 + (Q95 - Q0) * r * r


shaping_factor(K, D) == 100 + 5 * K + 3 * D

\* ballooning_stability(r_norm, beta_local, q, s): <<alpha, alpha_crit, stable>>
ballooning_stability(r, beta_local, q, K, D) ==
    LET q4         == (q * 10) \div 324
        qsq        == (q4 * q4) \div 10000
        alpha      == (((beta_local * qsq) \div 100) * 2 * r) \div 18000
        s_sq_06    == (6 * r * r * 1000) \div 81
        alpha_crit0 == (s_sq_06 * 100) \div qsq
        alpha_crit == (alpha_crit0 * shaping_factor(K, D)) \div 100
    IN  [alpha |-> alpha, alpha_crit |-> alpha_crit, stable |-> alpha < alpha_crit]

Emit(line) == out' = Append(out, line)

\* ------------------------------------------------------------------------
\* Initial state: lines 29-49 have bound the equilibrium parameters; nothing
\* has been computed or printed yet.
\* ------------------------------------------------------------------------
Fresh ==
    /\ pc = "start"
    /\ out = << >>
    /\ scan_i = 0 /\ samples = << >> /\ ballooning_stable = FALSE
    /\ beta_N = 0 /\ kink_stable = FALSE
    /\ surf_j = 0 /\ surfaces = << >> /\ skipped = << >> /\ tearing_stable = FALSE
    /\ ntm_stable = FALSE /\ sawtooth_stable = FALSE
    /\ beta_no_wall = 0 /\ rwm_stable = FALSE /\ elm_stable = FALSE
    /\ modes = << >> /\ all_stable = FALSE

\* The literals the script binds at lines 33-45 (a = R0 / phi**3 = 2.618).
\* The script reads no input, so an execution of the file as it stands
\* starts in this state and in no other.
Embedded ==
    /\ q0 = 10 /\ q95 = 30 /\ beta = 163 /\ kappa = 17 /\ delta = 4
    /\ a = 2618 /\ I_p = 253

\* Init generalises the literals of lines 33-45 to the value sets above, so
\* that both branches of every evaluator are exercised.  The set of initial
\* states contains the Embedded one; the others are the script with its
\* literals edited.  An invariant of Spec therefore holds of the script as
\* it stands, whereas a violation counts against the script only when it
\* is reached from the Embedded state.
Init ==
    /\ q0 \in Q0Values /\ q95 \in Q95Values /\ beta \in BetaValues
    /\ kappa \in KappaValues /\ delta \in DeltaValues /\ a \in AValues
    /\ I_p \in IpValues
    /\ run = 1 /\ prev = << >>
    /\ Fresh

\* Lines 51-64: banner and equilibrium parameters.
PrintParameters ==
    /\ pc = "start"
    /\ Emit("EQUILIBRIUM")
    /\ pc' = "scan_init"
    /\ UNCHANGED <<params, run, prev, locals>>

\* Lines 70-86: section header, sample points, ballooning_stable = True,
\* "Radial scan" line.
BallooningInit ==
    /\ pc = "scan_init"
    /\ scan_i' = 1
    /\ ballooning_stable' = TRUE
    /\ out' = out \o << "SECTION_BALLOONING", "RADIAL_SCAN_ALL_STABLE" >>
    /\ pc' = "scan"
    /\ UNCHANGED <<params, run, prev, samples, beta_N, kink_stable,
                   surf_j, surfaces, skipped, tearing_stable, ntm_stable,
                   sawtooth_stable, beta_no_wall, rwm_stable, elm_stable,
                   modes, all_stable>>

\* A scan whose flag is overwritten by each sample.
ScanOverwrite(flag, stable) == stable

\* The flag after one loop body (lines 90-91).
ScanLatch(flag, stable) == IF ~stable THEN FALSE ELSE flag

\* Lines 87-91: one iteration of the radial scan.
BallooningSample ==
    /\ pc = "scan"
    /\ scan_i <= N_samples
    /\ LET r   == r_norm_values(scan_i)
           q   == q_local(q0, q95, r)
           res == ballooning_stability(r, beta, q, kappa, delta)
       IN  /\ samples' = Append(samples,
                 [r |-> r, q |-> q, alpha |-> res.alpha,
                  alpha_crit |-> res.alpha_crit, stable |-> res.stable])
           /\ ballooning_stable' = ScanLatch(ballooning_stable, res.stable)
    /\ scan_i' = scan_i + 1
    /\ UNCHANGED <<params, pc, out, run, prev, beta_N, kink_stable,
                   surf_j, surfaces, skipped, tearing_stable, ntm_stable,
                   sawtooth_stable, beta_no_wall, rwm_stable, elm_stable,
                   modes, all_stable>>

\* Lines 93-103: the loop is exhausted, the ballooning result is printed,
\* then the header of the kink section.
BallooningResult ==
    /\ pc = "scan"
    /\ scan_i > N_samples
    /\ out' = out \o << IF ballooning_stable THEN "BALLOONING_STABLE"
                                             ELSE "BALLOONING_UNSTABLE",
                        "SECTION_KINK" >>
    /\ pc' = "kink"
    /\ UNCHANGED <<params, run, prev, locals>>

\* ------------------------------------------------------------------------
\* 2. Kink (Troyon limit)
\* ------------------------------------------------------------------------
\* a * B0 in units of 1e-3.
aB0(A) == FDiv(A * B0, 1000)

\* I_p/1e6 / (a * B0) in units of 1e-4; the caller guarantees aB0(A) # 0.
current_ratio(Ip, A) == FDiv(Ip * 1000000, aB0(A))

\* Line 105 raises ZeroDivisionError when a * B0 or the whole divisor is 0.
KinkDivides(Ip, A) == aB0(A) # 0 /\ current_ratio(Ip, A) # 0

\* beta / (I_p/1e6) / (a * B0): the divisor without its parentheses.
BetaNUnparenthesized(Bt, Ip, A) == FDiv(FDiv(Bt * 10000, Ip), aB0(A))

\* beta_N = beta / (I_p/1e6 / (a * B0)), units of 1e-4.
BetaN(Bt, Ip, A) == FDiv(Bt * 10000, current_ratio(Ip, A))

KinkVerdict(bN) == bN < troyon_limit

\* Lines 105-120: beta_N, the kink result, then the header of the tearing
\* section.
Kink ==
    /\ pc = "kink"
    /\ KinkDivides(I_p, a)
    /\ beta_N' = BetaN(beta, I_p, a)
    /\ kink_stable' = KinkVerdict(beta_N')
    /\ out' = out \o << "BETA_N",
                        IF kink_stable' THEN "KINK_STABLE" ELSE "KINK_UNSTABLE",
                        "SECTION_TEARING" >>
    /\ pc' = "tearing_init"
    /\ UNCHANGED <<params, run, prev, scan_i, samples, ballooning_stable,
                   surf_j, surfaces, skipped, tearing_stable, ntm_stable,
                   sawtooth_stable, beta_no_wall, rwm_stable, elm_stable,
                   modes, all_stable>>

\* Line 105: ZeroDivisionError, the script ends with a traceback.
KinkAbort ==
    /\ pc = "kink"
    /\ ~KinkDivides(I_p, a)
    /\ pc' = "aborted"
    /\ UNCHANGED <<params, out, run, prev, locals>>

\* ------------------------------------------------------------------------
\* 3. Tearing
\* ------------------------------------------------------------------------
\* A range test that also skips the surfaces at q0 and q95 themselves.
OutOfRangeClosed(m, n, Q0, Q95) == 10 * m <= Q0 * n \/ 10 * m >= Q95 * n

\* Line 127: q_target < q0 or q_target > q95, with q_target = m / n.
OutOfRange(m, n, Q0, Q95) == 10 * m < Q0 * n \/ 10 * m > Q95 * n

\* Line 129: r_s_norm = sqrt((q_target - q0) / (q95 - q0)), units of 1e-3.
\* Only used for an in-range pair with q95 > q0.
r_s_norm(m, n, Q0, Q95) ==
    ISqrt(((10 * m - Q0 * n) * 1000000) \div (n * (Q95 - Q0)))

\* Line 130: r_s = r_s_norm * a, units of 1e-3.
r_s(m, n, Q0, Q95, A) == FDiv(r_s_norm(m, n, Q0, Q95) * A, 1000)

\* Lines 129 and 131 raise ZeroDivisionError when q95 == q0 or r_s == 0.
TearingDivides(m, n, Q0, Q95, A) ==
    Q95 # Q0 /\ r_s(m, n, Q0, Q95, A) # 0

\* Lines 131-135: the stabilized tearing index, units of 1e-3.
dp_stabilized(m, n, Q0, Q95, A) ==
    LET rs                  == r_s(m, n, Q0, Q95, A)
        dp                  == FDiv((0 - 2) * m * 1000000, rs)
                               + FDiv((m * m - 1) * 1000000, rs)
        dp_normalized       == FDiv(dp * A, 1000)
        dp_with_golden_flow == FDiv(dp_normalized * 1000, H_phi)
        stabilizing_term    == 0 - (phi \div 2)
    IN  dp_with_golden_flow + stabilizing_term

\* Lines 136-137: the flag after one evaluated surface.
TearingLatch(flag, dps) == IF dps >= 0 THEN FALSE ELSE flag

\* Lines 122-123.
TearingInit ==
    /\ pc = "tearing_init"
    /\ surf_j' = 1
    /\ tearing_stable' = TRUE
    /\ pc' = "tearing"
    /\ UNCHANGED <<params, out, run, prev, scan_i, samples, ballooning_stable,
                   beta_N, kink_stable, surfaces, skipped, ntm_stable,
                   sawtooth_stable, beta_no_wall, rwm_stable, elm_stable,
                   modes, all_stable>>

\* Lines 125-128: the pair lies outside [q0, q95]: continue.
TearingSkip ==
    /\ pc = "tearing"
    /\ surf_j <= Len(rational_surfaces)
    /\ LET m == rational_surfaces[surf_j][1]
           n == rational_surfaces[surf_j][2]
       IN  /\ OutOfRange(m, n, q0, q95)
           /\ skipped' = Append(skipped, <<m, n>>)
    /\ surf_j' = surf_j + 1
    /\ UNCHANGED <<params, pc, out, run, prev, scan_i, samples,
                   ballooning_stable, beta_N, kink_stable, surfaces,
                   tearing_stable, ntm_stable, sawtooth_stable, beta_no_wall,
                   rwm_stable, elm_stable, modes, all_stable>>

\* Lines 125-137: the pair is in range and is evaluated.
TearingEvaluate ==
    /\ pc = "tearing"
    /\ surf_j <= Len(rational_surfaces)
    /\ LET m == rational_surfaces[surf_j][1]
           n == rational_surfaces[surf_j][2]
       IN  /\ ~OutOfRange(m, n, q0, q95)
           /\ TearingDivides(m, n, q0, q95, a)
           /\ LET dps == dp_stabilized(m, n, q0, q95, a)
              IN  /\ surfaces' = Append(surfaces,
                        [m |-> m, n |-> n, dp_stabilized |-> dps])
                  /\ tearing_stable' = TearingLatch(tearing_stable, dps)
    /\ surf_j' = surf_j + 1
    /\ UNCHANGED <<params, pc, out, run, prev, scan_i, samples,
                   ballooning_stable, beta_N, kink_stable, skipped, ntm_stable,
                   sawtooth_stable, beta_no_wall, rwm_stable, elm_stable,
                   modes, all_stable>>

\* Lines 129, 131: ZeroDivisionError inside the scan, the script ends with a
\* traceback.
TearingAbort ==
    /\ pc = "tearing"
    /\ surf_j <= Len(rational_surfaces)
    /\ LET m == rational_surfaces[surf_j][1]
           n == rational_surfaces[surf_j][2]
       IN  /\ ~OutOfRange(m, n, q0, q95)
           /\ ~TearingDivides(m, n, q0, q95, a)
    /\ pc' = "aborted"
    /\ UNCHANGED <<params, out, run, prev, locals>>

\* Lines 139-140.
TearingResult ==
    /\ pc = "tearing"
    /\ surf_j > Len(rational_surfaces)
    /\ out' = out \o << "GOLDEN_FLOW",
                        IF tearing_stable THEN "TEARING_STABLE"
                                          ELSE "TEARING_UNSTABLE" >>
    /\ pc' = "ntm"
    /\ UNCHANGED <<params, run, prev, locals>>

\* ------------------------------------------------------------------------
\* 4-7. NTM, sawteeth, RWM, ELM
\* ------------------------------------------------------------------------
NtmVerdict(Bt) == Bt < ntm_threshold

\* Lines 148-154.  Line 152 prints "beta < 2.0% threshold" unconditionally.
Ntm ==
    /\ pc = "ntm"
    /\ ntm_stable' = NtmVerdict(beta)
    /\ out' = out \o << "SECTION_NTM", "NTM_BETA_BELOW_THRESHOLD",
                        IF ntm_stable' THEN "NTM_STABLE" ELSE "NTM_RISK" >>
    /\ pc' = "sawtooth"
    /\ UNCHANGED <<params, run, prev, scan_i, samples, ballooning_stable,
                   beta_N, kink_stable, surf_j, surfaces, skipped,
                   tearing_stable, sawtooth_stable, beta_no_wall, rwm_stable,
                   elm_stable, modes, all_stable>>

\* q0 > 1.0: the boundary counted as unstable.
SawtoothVerdictStrict(Q0) == Q0 > 10

\* Line 157: sawtooth_stable = q0 >= 1.0.
SawtoothVerdict(Q0) == Q0 >= 10

\* Lines 157-163.
Sawtooth ==
    /\ pc = "sawtooth"
    /\ sawtooth_stable' = SawtoothVerdict(q0)
    /\ out' = out \o << "SECTION_SAWTOOTH", "Q0",
                        IF sawtooth_stable' THEN "NO_SAWTEETH"
                                            ELSE "SAWTEETH_PRESENT" >>
    /\ pc' = "rwm"
    /\ UNCHANGED <<params, run, prev, scan_i, samples, ballooning_stable,
                   beta_N, kink_stable, surf_j, surfaces, skipped,
                   tearing_stable, ntm_stable, beta_no_wall, rwm_stable,
                   elm_stable, modes, all_stable>>

\* 0.028 * 4 * (1 - kappa**2) / 2: the sign of the elongation term flipped.
BetaNoWallMinus(K) == 112 * (100 - K * K)

\* Line 166: beta_no_wall = 0.028 * 4 * (1 + kappa**2) / 2, units of 5e-6.
BetaNoWall(K) == 112 * (100 + K * K)

\* Line 167: rwm_stable = beta < beta_no_wall (beta brought to units of 5e-6).
RwmVerdict(Bt, bnw) == 20 * Bt < bnw

\* Lines 166-173.
Rwm ==
    /\ pc = "rwm"
    /\ beta_no_wall' = BetaNoWall(kappa)
    /\ rwm_stable' = RwmVerdict(beta, beta_no_wall')
    /\ out' = out \o << "SECTION_RWM", "RWM_BETA_BELOW_NO_WALL",
                        IF rwm_stable' THEN "RWM_STABLE" ELSE "NEED_RWM_CONTROL" >>
    /\ pc' = "elm"
    /\ UNCHANGED <<params, run, prev, scan_i, samples, ballooning_stable,
                   beta_N, kink_stable, surf_j, surfaces, skipped,
                   tearing_stable, ntm_stable, sawtooth_stable,
                   elm_stable, modes, all_stable>>

\* Lines 176-183.
Elm ==
    /\ pc = "elm"
    /\ elm_stable' = TRUE
    /\ out' = out \o << "SECTION_ELM", "ELM_FRACTION", "ELMS_MITIGATED" >>
    /\ pc' = "summary"
    /\ UNCHANGED <<params, run, prev, scan_i, samples, ballooning_stable,
                   beta_N, kink_stable, surf_j, surfaces, skipped,
                   tearing_stable, ntm_stable, sawtooth_stable, beta_no_wall,
                   rwm_stable, modes, all_stable>>

\* ------------------------------------------------------------------------
\* Summary
\* ------------------------------------------------------------------------
\* Lines 194-202.
ModeList ==
    << <<"Ballooning Modes", ballooning_stable>>,
       <<"Kink Modes", kink_stable>>,
       <<"Tearing Modes", tearing_stable>>,
       <<"NTM Modes", ntm_stable>>,
       <<"Sawteeth", sawtooth_stable>>,
       <<"Resistive Wall Modes", rwm_stable>>,
       <<"Edge Localized Modes", elm_stable>> >>

\* A summary that is satisfied by any one stable mode.
AllStableAny(ms) == \E k \in 1..Len(ms) : ms[k][2]

\* Line 211: all(m[1] for m in modes).
AllStable(ms) == \A k \in 1..Len(ms) : ms[k][2]

\* Lines 207-208: the row text f"  {mode:25} {status}".
RowLine(mode, stable) ==
    IF stable
    THEN CASE mode = "Ballooning Modes"     -> "Ballooning Modes: STABLE"
           [] mode = "Kink Modes"           -> "Kink Modes: STABLE"
           [] mode = "Tearing Modes"        -> "Tearing Modes: STABLE"
           [] mode = "NTM Modes"            -> "NTM Modes: STABLE"
           [] mode = "Sawteeth"             -> "Sawteeth: STABLE"
           [] mode = "Resistive Wall Modes" -> "Resistive Wall Modes: STABLE"
           [] mode = "Edge Localized Modes" -> "Edge Localized Modes: STABLE"
    ELSE CASE mode = "Ballooning Modes"     -> "Ballooning Modes: UNSTABLE"
           [] mode = "Kink Modes"           -> "Kink Modes: UNSTABLE"
           [] mode = "Tearing Modes"        -> "Tearing Modes: UNSTABLE"
           [] mode = "NTM Modes"            -> "NTM Modes: UNSTABLE"
           [] mode = "Sawteeth"             -> "Sawteeth: UNSTABLE"
           [] mode = "Resistive Wall Modes" -> "Resistive Wall Modes: UNSTABLE"
           [] mode = "Edge Localized Modes" -> "Edge Localized Modes: UNSTABLE"

\* Lines 206-208: one table row per mode.
TableRows(ms) == [k \in 1..Len(ms) |-> RowLine(ms[k][1], ms[k][2])]

\* Lines 189-224: table, overall verdict, banner when all stable, disruption
\* probability.
Summary ==
    /\ pc = "summary"
    /\ modes' = ModeList
    /\ all_stable' = AllStable(modes')
    /\ out' = out \o << "SUMMARY" >> \o TableRows(modes')
                  \o (IF all_stable' THEN << "ALL_MHD_MODES_STABLE" >> ELSE << >>)
                  \o << "DISRUPTION_PROBABILITY" >>
    /\ pc' = "done"
    /\ UNCHANGED <<params, run, prev, scan_i, samples, ballooning_stable,
                   beta_N, kink_stable, surf_j, surfaces, skipped,
                   tearing_stable, ntm_stable, sawtooth_stable, beta_no_wall,
                   rwm_stable, elm_stable>>

\* ------------------------------------------------------------------------
\* A second execution of the script on the same equilibrium
\* ------------------------------------------------------------------------
\* The seven mode results of the current run, in report order.
ModeResults ==
    << [mode |-> "ballooning", value |-> samples, threshold |-> 0,
        stable |-> ballooning_stable],
       [mode |-> "kink", value |-> beta_N, threshold |-> troyon_limit,
        stable |-> kink_stable],
       [mode |-> "tearing", value |-> surfaces, threshold |-> 0,
        stable |-> tearing_stable],
       [mode |-> "ntm", value |-> beta, threshold |-> ntm_threshold,
        stable |-> ntm_stable],
       [mode |-> "sawtooth", value |-> q0, threshold |-> 10,
        stable |-> sawtooth_stable],
       [mode |-> "rwm", value |-> beta, threshold |-> beta_no_wall,
        stable |-> rwm_stable],
       [mode |-> "elm", value |-> elm_energy_fraction, threshold |-> 0,
        stable |-> elm_stable] >>

Outcome == [pc |-> pc, results |-> ModeResults, all_stable |-> all_stable,
            disruption_probability |-> P_disrupt, out |-> out]

Finished == pc \in {"done", "aborted"}

\* The process has ended; the script is started again with the same literals.
Restart ==
    /\ Finished
    /\ run < MaxRuns
    /\ run' = run + 1
    /\ prev' = Append(prev, Outcome)
    /\ pc' = "start"
    /\ out' = << >>
    /\ scan_i' = 0 /\ samples' = << >> /\ ballooning_stable' = FALSE
    /\ beta_N' = 0 /\ kink_stable' = FALSE
    /\ surf_j' = 0 /\ surfaces' = << >> /\ skipped' = << >>
    /\ tearing_stable' = FALSE
    /\ ntm_stable' = FALSE /\ sawtooth_stable' = FALSE
    /\ beta_no_wall' = 0 /\ rwm_stable' = FALSE /\ elm_stable' = FALSE
    /\ modes' = << >> /\ all_stable' = FALSE
    /\ UNCHANGED params

Next ==
    \/ PrintParameters
    \/ BallooningInit
    \/ BallooningSample
    \/ BallooningResult
    \/ Kink
    \/ KinkAbort
    \/ TearingInit
    \/ TearingSkip
    \/ TearingEvaluate
    \/ TearingAbort
    \/ TearingResult
    \/ Ntm
    \/ Sawtooth
    \/ Rwm
    \/ Elm
    \/ Summary
    \/ Restart

Spec == Init /\ [][Next]_vars

\* ------------------------------------------------------------------------
\* Positions of a run
\* ------------------------------------------------------------------------
ScanDone        == scan_i > N_samples
KinkDone        == pc = "tearing_init" \/ surf_j >= 1
TearingScanDone == surf_j > Len(rational_surfaces)
SawtoothDone    == pc \in {"rwm", "elm", "summary", "done"}
Emitted(line)   == \E k \in 1..Len(out) : out[k] = line

\* ------------------------------------------------------------------------
\* C1: the overall verdict is true exactly when all seven mode verdicts are
\* true, for every combination of the seven verdicts, and it is a function
\* of the seven verdicts alone.
\* ------------------------------------------------------------------------
SevenVerdicts == [1..7 -> BOOLEAN]

ModesOf(bs) == [k \in 1..7 |-> <<ModeList[k][1], bs[k]>>]

C1_OverallIsAndOfSeven ==
    /\ pc = "done" =>
          /\ Len(modes) = 7
          /\ all_stable = (/\ ballooning_stable /\ kink_stable /\ tearing_stable
                           /\ ntm_stable /\ sawtooth_stable /\ rwm_stable
                           /\ elm_stable)
          /\ Emitted("ALL_MHD_MODES_STABLE") = all_stable
    /\ pc = "summary" =>
          \A bs \in SevenVerdicts :
              AllStable(ModesOf(bs)) = (\A k \in 1..7 : bs[k])

\* A finished run in which the last mode alone decides nothing but one
\* earlier mode alone makes the overall verdict false.
C1_Witness ==
    /\ pc = "done"
    /\ ~kink_stable /\ ~all_stable
    /\ ballooning_stable /\ tearing_stable /\ ntm_stable
    /\ sawtooth_stable /\ rwm_stable /\ elm_stable

\* ------------------------------------------------------------------------
\* C2: the radial scan takes exactly 10 ordered samples from r = 0.1 to
\* r = 0.95, each with q = q0 + (q95 - q0) r^2, and the aggregate equals the
\* AND of the per-sample verdicts alpha < alpha_crit: one unstable sample
\* makes it false whatever follows.
\* ------------------------------------------------------------------------
C2_ScanIsAndOfSamples ==
    /\ pc = "scan" =>
          /\ Len(samples) = scan_i - 1
          /\ ballooning_stable = (\A k \in 1..Len(samples) : samples[k].stable)
    /\ ScanDone =>
          /\ Len(samples) = 10
          /\ samples[1].r = 18 /\ samples[10].r = 171
          /\ \A k \in 1..9 : samples[k + 1].r - samples[k].r = 17
          /\ \A k \in 1..10 :
                /\ samples[k].q - q0 * 32400
                     = (q95 - q0) * (samples[k].r * samples[k].r)
                /\ samples[k].stable = (samples[k].alpha < samples[k].alpha_crit)
          /\ ballooning_stable = (\A k \in 1..10 : samples[k].stable)

\* The first sample is unstable and the last one is stable.
C2_Witness ==
    /\ ScanDone
    /\ ~samples[1].stable /\ samples[10].stable
    /\ ~ballooning_stable

\* ------------------------------------------------------------------------
\* C3: a pair (m, n) is evaluated iff q0 <= m/n <= q95 and skipped
\* otherwise; a skipped pair never changes tearing_stable; after the scan
\* tearing_stable holds iff every evaluated pair has a strictly negative
\* stabilized index (0 counts as unstable).
\* ------------------------------------------------------------------------
InRange(m, n) == q0 * n <= 10 * m /\ 10 * m <= q95 * n

C3_TearingScan ==
    /\ pc = "tearing" =>
          /\ Len(surfaces) + Len(skipped) = surf_j - 1
          /\ tearing_stable
               = (\A k \in 1..Len(surfaces) : surfaces[k].dp_stabilized < 0)
    /\ TearingScanDone =>
          /\ \A j \in 1..Len(rational_surfaces) :
                LET m == rational_surfaces[j][1]
                    n == rational_surfaces[j][2]
                IN  /\ InRange(m, n)
                        <=> (\E k \in 1..Len(surfaces) :
                                surfaces[k].m = m /\ surfaces[k].n = n)
                    /\ ~InRange(m, n)
                        <=> (\E k \in 1..Len(skipped) : skipped[k] = <<m, n>>)
          /\ tearing_stable
               = (\A k \in 1..Len(surfaces) : surfaces[k].dp_stabilized < 0)
          /\ (q0 = 10 /\ q95 = 30) =>
                /\ \E k \in 1..Len(surfaces) :
                       surfaces[k].m = 2 /\ surfaces[k].n = 1
                /\ OutOfRange(10, 1, q0, q95)
          /\ ~TearingLatch(TRUE, 0)

\* A finished scan with a skipped pair, an evaluated stable pair and an
\* evaluated unstable pair.
C3_Witness ==
    /\ TearingScanDone
    /\ Len(skipped) > 0
    /\ \E k \in 1..Len(surfaces) : surfaces[k].dp_stabilized < 0
    /\ \E k \in 1..Len(surfaces) : surfaces[k].dp_stabilized >= 0
    /\ ~tearing_stable

\* ------------------------------------------------------------------------
\* C4: when every rational surface is skipped, the tearing outcome is
\* flagged as inapplicable and is never reported as plain "stable".
\* The case needs q0 and q95 for which every q_rational of line 123 fails
\* q0 < q_rational < q95.  With the literals of lines 42-43 all five
\* surfaces are evaluated (ShippedScanEvaluatesAll), so the case arises
\* only from initial states other than the Embedded one.
\* ------------------------------------------------------------------------
TearingReported == Emitted("TEARING_STABLE") \/ Emitted("TEARING_UNSTABLE")

\* With q0 = 1.0 and q95 = 3.0 the scan of lines 127-138 skips nothing.
ShippedScanEvaluatesAll ==
    (Embedded /\ TearingScanDone) => (Len(surfaces) = 5 /\ skipped = << >>)

C4_VacuousCaseFlagged ==
    (TearingReported /\ surfaces = << >>) =>
        (~Emitted("TEARING_STABLE") /\ ~tearing_stable)

\* ------------------------------------------------------------------------
\* C5: parameters with q95 <= q0 or a <= 0 are rejected at construction,
\* before any evaluator runs: such a run reaches neither scan nor the
\* summary, produces no verdict and no division by zero in an evaluator.
\* The literals of lines 34 and 42-43 give q95 > q0 and a > 0, so the case
\* arises only from initial states other than the Embedded one.
\* ------------------------------------------------------------------------
InvalidParameters == q95 <= q0 \/ a <= 0

C5_InvalidParametersRejected ==
    InvalidParameters =>
        /\ pc \notin {"scan", "kink", "tearing_init", "tearing", "ntm",
                      "sawtooth", "rwm", "elm", "summary", "done", "aborted"}
        /\ samples = << >> /\ surfaces = << >> /\ modes = << >>

\* ------------------------------------------------------------------------
\* C6: no partial results are surfaced: at every point of the run with the
\* embedded constants, the output holds either all seven mode verdicts and
\* the summary, or none of them.
\* ------------------------------------------------------------------------
ResultLines ==
    {"BALLOONING_STABLE", "BALLOONING_UNSTABLE", "KINK_STABLE", "KINK_UNSTABLE",
     "TEARING_STABLE", "TEARING_UNSTABLE", "NTM_STABLE", "NTM_RISK",
     "NO_SAWTEETH", "SAWTEETH_PRESENT", "RWM_STABLE", "NEED_RWM_CONTROL",
     "ELMS_MITIGATED", "SUMMARY"}

EmittedResults == SelectSeq(out, LAMBDA l : l \in ResultLines)

C7_BetaNIs0130 ==
    (Embedded /\ KinkDone) =>
        (1295 <= beta_N /\ beta_N < 1305 /\ kink_stable)

\* beta_N printed with three decimals reads as 0.041; stable iff below 2.8.
C7_BetaNIs0041 ==
    /\ (Embedded /\ KinkDone) =>
          (410 <= beta_N /\ beta_N < 415 /\ kink_stable)
    /\ KinkDone =>
          /\ kink_stable = (beta_N < 28000)
          /\ Emitted("KINK_STABLE") = kink_stable
          /\ Emitted("KINK_UNSTABLE") = ~kink_stable

C7_Witness == Embedded /\ KinkDone /\ beta_N = 414 /\ kink_stable

\* ------------------------------------------------------------------------
\* C8: for q95 > q0 > 0 every interpolated q_local of the scan lies strictly
\* between q0 and q95 and q_local strictly increases along the scan.
\* ------------------------------------------------------------------------
C8_QLocalBetweenAndIncreasing ==
    (q95 > q0 /\ q0 > 0) =>
        \A k \in 1..Len(samples) :
            /\ q0 * 32400 < samples[k].q
            /\ samples[k].q < q95 * 32400
            /\ k > 1 => samples[k - 1].q < samples[k].q

C8_Witness ==
    /\ q95 > q0 /\ q0 > 0
    /\ Len(samples) = 10
    /\ samples[1].r = 18 /\ samples[10].r = 171

\* ------------------------------------------------------------------------
\* C9: a second run on identical equilibrium parameters yields the same
\* seven mode results (values, thresholds, verdicts, order), the same
\* overall verdict and the same report as every earlier run.
\* ------------------------------------------------------------------------
\* Every evaluator reads only the names bound at lines 29-49 and the names
\* it has itself bound earlier in the same execution; the script keeps no
\* file, cache or counter from one execution to the next and draws no random
\* number.  Restart accordingly renews every local and leaves the parameters
\* alone.  Agreement of two executions is then the agreement of two
\* evaluations of the operators above on equal arguments, which no state of
\* the model can contradict; no formula is stated for it.

\* ------------------------------------------------------------------------
\* C10: the sawtooth verdict is stable iff q0 >= 1.0; q0 == 1.0 counts as
\* stable and any q0 < 1.0 is unstable.
\* ------------------------------------------------------------------------
C10_SawtoothIffQ0AtLeastOne ==
    SawtoothDone =>
        /\ sawtooth_stable = (q0 >= 10)
        /\ q0 = 10 => sawtooth_stable
        /\ q0 < 10 => ~sawtooth_stable
        /\ Emitted("NO_SAWTEETH") = sawtooth_stable
        /\ Emitted("SAWTEETH_PRESENT") = ~sawtooth_stable

C10_Witness == SawtoothDone /\ q0 = 10 /\ sawtooth_stable

\* ------------------------------------------------------------------------
\* C11: beta_no_wall = 0.028 * 4 * (1 + kappa^2) / 2 depends on kappa only
\* and is strictly increasing in kappa for kappa > 0 (1.7 -> 3.4 raises it);
\* the RWM verdict is stable iff beta < beta_no_wall, so raising kappa never
\* turns a stable verdict into an unstable one for fixed beta.
\* ------------------------------------------------------------------------
RwmDone == pc \in {"elm", "summary", "done"}

C11_NoWallLimitIncreasesWithKappa ==
    /\ pc = "rwm" =>
          /\ \A K1 \in 1..MaxKappa : \A K2 \in (K1 + 1)..(MaxKappa + 1) :
                BetaNoWall(K1) < BetaNoWall(K2)
          /\ BetaNoWall(17) < BetaNoWall(34)
    /\ RwmDone =>
          /\ beta_no_wall = 112 * (100 + kappa * kappa)
          /\ rwm_stable = (20 * beta < beta_no_wall)
          /\ Emitted("RWM_STABLE") = rwm_stable
          /\ Emitted("NEED_RWM_CONTROL") = ~rwm_stable
          /\ rwm_stable =>
                \A K2 \in (kappa + 1)..(MaxKappa + 1) :
                    RwmVerdict(beta, BetaNoWall(K2))

\* beta = 0.30 is unstable at kappa = 1.7 and would be stable at kappa = 3.4;
\* the run at kappa = 3.4 is the one reached here.
C11_Witness ==
    /\ RwmDone /\ kappa = 34 /\ beta = 3000
    /\ rwm_stable
    /\ ~RwmVerdict(beta, BetaNoWall(17))

\* ------------------------------------------------------------------------
\* C12: every stability statement of the report agrees with the verdict
\* computed for its mode and is emitted only after that verdict has been
\* computed: "Radial scan: ALL STABLE" only after the scan and only when all
\* 10 samples are stable, the NTM line "beta < 2.0%" only when ntm_stable,
\* and a run whose overall verdict is false emits an overall fail line.
\* ------------------------------------------------------------------------
StatusRows ==
    {RowLine(ModeList[k][1], b) : k \in 1..Len(ModeList), b \in BOOLEAN}

\* The RESULT line of each section and the rows of the table.
C12_ResultLinesAgree ==
    /\ Emitted("BALLOONING_STABLE") => (ScanDone /\ ballooning_stable)
    /\ Emitted("BALLOONING_UNSTABLE") => (ScanDone /\ ~ballooning_stable)
    /\ Emitted("KINK_STABLE") => (KinkDone /\ kink_stable)
    /\ Emitted("KINK_UNSTABLE") => (KinkDone /\ ~kink_stable)
    /\ Emitted("TEARING_STABLE") => (TearingScanDone /\ tearing_stable)
    /\ Emitted("TEARING_UNSTABLE") => (TearingScanDone /\ ~tearing_stable)
    /\ Emitted("NTM_STABLE") => ntm_stable
    /\ Emitted("NTM_RISK") => ~ntm_stable
    /\ Emitted("NO_SAWTEETH") => sawtooth_stable
    /\ Emitted("SAWTEETH_PRESENT") => ~sawtooth_stable
    /\ Emitted("RWM_STABLE") => rwm_stable
    /\ Emitted("NEED_RWM_CONTROL") => ~rwm_stable
    /\ Emitted("ELMS_MITIGATED") => elm_stable
    /\ Emitted("ALL_MHD_MODES_STABLE") => (pc = "done" /\ all_stable)
    /\ \A k \in 1..Len(modes) : Emitted(RowLine(modes[k][1], modes[k][2]))

\* The radial-scan line (line 86).
C12_RadialScanLineAgrees ==
    Emitted("RADIAL_SCAN_ALL_STABLE") =>
        /\ ScanDone
        /\ \A k \in 1..Len(samples) : samples[k].stable

\* The NTM and RWM lines that state beta below the threshold (lines 152, 171).
C12_ThresholdLinesAgree ==
    /\ Emitted("NTM_BETA_BELOW_THRESHOLD") => ntm_stable
    /\ Emitted("RWM_BETA_BELOW_NO_WALL") => rwm_stable

\* A failed run prints an overall line between the table and the disruption
\* probability.
C12_FailIsAnnounced ==
    (pc = "done" /\ ~all_stable) => out[Len(out) - 1] \notin StatusRows

\* C12: all statements of the report agree with the verdicts and follow them.
C12_ReportAgreesWithVerdicts ==
    Embedded =>
        /\ C12_ResultLinesAgree
        /\ C12_RadialScanLineAgrees
        /\ C12_ThresholdLinesAgree
        /\ C12_FailIsAnnounced

TypeOK ==
    /\ q0 \in Q0Values /\ q95 \in Q95Values /\ beta \in BetaValues
    /\ kappa \in KappaValues /\ delta \in DeltaValues /\ a \in AValues
    /\ I_p \in IpValues
    /\ run \in 1..MaxRuns
    /\ ballooning_stable \in BOOLEAN /\ kink_stable \in BOOLEAN
    /\ tearing_stable \in BOOLEAN /\ ntm_stable \in BOOLEAN
    /\ sawtooth_stable \in BOOLEAN /\ rwm_stable \in BOOLEAN
    /\ elm_stable \in BOOLEAN /\ all_stable \in BOOLEAN

====
